---- MODULE Spec2Model ----
(***************************************************************************)
(* PaceIQ - Strava Weekly Export (streamlit_app.py).                       *)
(*                                                                         *)
(* The Streamlit script is re-run from its first line on every user        *)
(* interaction; st.session_state survives between runs.  One run is        *)
(* modelled as a walk of pc from "idle" through the network calls the      *)
(* script makes, one action per call, and back to "idle".                  *)
(*                                                                         *)
(* Python values: a JSON object is a record whose DOMAIN is its key set;   *)
(* every value that may be None is wrapped, None being << >> and a value   *)
(* v being << v >>, so that a key that is absent and a key that is null    *)
(* stay different, as they are for dict.get(k, default).                   *)
(***************************************************************************)
EXTENDS Integers, Sequences, FiniteSets, TLC

\* ---------------------------------------------------------------- bounds
\* Most activities the athlete holds in the window, in the application runs.
MaxActs == 2
\* Most list pages one fetch_last_n_days call is followed for.
MaxPages == 3
\* Most entries of one laps response.
MaxLaps == 2
\* The clock runs from 0 to MaxClock ticks.
MaxClock == 3
\* Clock ticks per second: time.time() is a float, int() truncates it.
TicksPerSec == 2

\* ------------------------------------------------------ program constants
PER_PAGE == 100
SECONDS_PER_DAY == 86400

\* ----------------------------------------------------------------- values
None == << >>
Some(v) == << v >>
IsNone(o) == o = << >>
Val(o) == o[1]

\* dict.get(k): the value, None when the key is absent.
Get(d, k) == IF k \in DOMAIN d THEN d[k] ELSE None
\* dict.get(k, default): the default only when the key is absent.
GetOr(d, k, default) == IF k \in DOMAIN d THEN d[k] ELSE default
\* Truthiness taken as "is not None": 0 would count as true.
TruthyNotNone(o) == ~IsNone(o)

\* Python truthiness of an optional number, and of an optional string.
Truthy(o) == ~IsNone(o) /\ Val(o) # 0
TruthyStr(o) == ~IsNone(o) /\ Val(o) # ""
\* (x or 0) for an optional number.
OrZero(o) == IF IsNone(o) THEN 0 ELSE Val(o)

\* What a call returns or raises.
Return(v) == [ok |-> TRUE, val |-> v, err |-> ""]
Raise(msg) == [ok |-> FALSE, val |-> None, err |-> msg]

\* raise_for_status() and the transport: status 0 is no response at all.
StatusError(status) ==
    CASE status = 0 -> "timeout"
      [] status = 401 -> "401 Unauthorized"
      [] OTHER -> "500 Server Error"

AccessTokens == {"A1", "A2"}
RefreshTokens == {"R1", "R2"}
Expiries == {1}
Codes == {"c1"}
WindowDays == {7, 28}
FailStatuses == {0, 401, 500}

VARIABLES
    CLIENT_ID, CLIENT_SECRET,   \* st.secrets, fixed for the process
    token, athlete,             \* st.session_state
    button_shown,               \* the last run rendered the fetch button
    clock,                      \* time, in ticks
    code, button, days,         \* this run's query parameter, button and slider
    pc,                         \* where the run is
    after, page, all_items,     \* fetch_last_n_days locals
    acts, idx, detailed_rows, lap_rows,   \* the handler's locals
    det,                        \* the handler's local det: the last detail body
    exc,                        \* the exception in flight inside the try block
    errors, uncaught, downloads, files,   \* what the run rendered
    net,                        \* the network calls of this run, in order
    lap_failed,                 \* history: positions in acts whose laps block raised
    reauth                      \* history: the provider rejected a token call
                                \* and no exchange has succeeded since

vars == << CLIENT_ID, CLIENT_SECRET, token, athlete, button_shown, clock, code,
           button, days,
           pc, after, page, all_items, acts, idx, detailed_rows, lap_rows, det,
           exc,
           errors, uncaught, downloads, files, net, lap_failed, reauth >>

config == << CLIENT_ID, CLIENT_SECRET >>
session == << token, athlete >>
widgets == << button_shown >>
inputs == << code, button, days >>
listLocals == << after, page, all_items >>
loopLocals == << acts, idx, detailed_rows, lap_rows, det >>
rendered == << errors, uncaught, downloads, files >>
history == << lap_failed, reauth >>

NoFiles == [activities |-> << >>, laps |-> << >>, report |-> << >>, zip |-> << >>]

\* A network call as it is logged: what was asked, with which token, the
\* status that came back and, for a list or token request, the body that
\* came back.
Call(kind, id, params, tok, status, got) ==
    [kind |-> kind, id |-> id, params |-> params, tok |-> tok, status |-> status,
     got |-> got]
DataKinds == {"list", "detail", "laps"}
TokenKinds == {"exchange", "refresh"}

\* -------------------------------------------------------------- the provider
WithKey(d, k, v) == [x \in DOMAIN d \cup {k} |-> IF x = k THEN v ELSE d[x]]

\* Token endpoint bodies: refresh_token and expires_at may be absent, and
\* refresh_token may be null; one body lacks access_token.
TokenBodies ==
    LET base == {[access_token |-> Some(a)] : a \in AccessTokens}
        withR == base \cup {WithKey(d, "refresh_token", r) :
                              d \in base,
                              r \in {None} \cup {Some(x) : x \in RefreshTokens}}
        withE == withR \cup {WithKey(d, "expires_at", Some(e)) :
                               d \in withR, e \in Expiries}
    IN  withE \cup {[message |-> Some("Bad Request")]}

Response(status, body) == [status |-> status, body |-> body]

\* The provider answers a token call: it accepts (200) or fails; it never
\* accepts a refresh that carries no refresh token.
TokenResponses(accepts) ==
    {Response(s, None) : s \in FailStatuses}
        \cup (IF accepts THEN {Response(200, b) : b \in TokenBodies} ELSE {})

\* --------------------------------------------------------- token functions
\* exchange_code_for_token: POST, raise_for_status(), r.json().
exchange_code_for_token(resp) ==
    IF resp.status # 200 THEN Raise(StatusError(resp.status))
    ELSE Return(resp.body)

\* refresh_token: POST, raise_for_status(), r.json().
refresh_token(resp) ==
    IF resp.status # 200 THEN Raise(StatusError(resp.status))
    ELSE Return(resp.body)

\* The dict stored at lines 144-148; tok["access_token"] raises KeyError.
NewToken(tok) ==
    IF "access_token" \notin DOMAIN tok THEN Raise("KeyError: 'access_token'")
    ELSE Return([access_token |-> tok.access_token,
                 refresh_token |-> Get(tok, "refresh_token"),
                 expires_at |-> Get(tok, "expires_at")])

\* session_state.token.update(...) of lines 167-171.
UpdatedToken(old, newtok) ==
    IF "access_token" \notin DOMAIN newtok THEN Raise("KeyError: 'access_token'")
    ELSE Return([access_token |-> newtok.access_token,
                 refresh_token |-> GetOr(newtok, "refresh_token", old.refresh_token),
                 expires_at |-> Get(newtok, "expires_at")])

\* int(time.time())
NowSec(ticks) == ticks \div TicksPerSec

\* The condition of line 164 written with > .
IsExpiredStrict(tok, ticks) == NowSec(ticks) > OrZero(tok.expires_at)

\* The condition of line 164.
IsExpired(tok, ticks) == NowSec(ticks) >= OrZero(tok.expires_at)

\* The condition of line 133 written with "and".
ConfigMissingBoth(id, secret) == id = "" /\ secret = ""

\* not CLIENT_ID or not CLIENT_SECRET
ConfigMissing(id, secret) == id = "" \/ secret = ""

MissingConfigMsg == "Missing STRAVA_CLIENT_ID or STRAVA_CLIENT_SECRET in Streamlit secrets."

\* Where the run goes after line 171: the button decides.
PcStep2(b) == IF b THEN "fetch" ELSE "idle"

\* Line 153 followed by the button at once, without the check of line 164.
PcGateNoRefresh(t, ticks, b) == IF IsNone(t) THEN "idle" ELSE PcStep2(b)

\* Where the run goes from line 153 with session token t.
PcGate(t, ticks, b) ==
    IF IsNone(t) THEN "idle"
    ELSE IF IsExpired(Val(t), ticks) THEN "refresh"
    ELSE PcStep2(b)

\* The run gets from line 153 to the fetch button without a network call.
ReachesStep2(t, ticks) == ~IsNone(t) /\ ~IsExpired(Val(t), ticks)

EmptyDict == [x \in {} |-> None]

\* ------------------------------------------------------------ the script run
\* A user interaction, some time after the last one, re-runs the script:
\* lines 130-161 up to the first network call.  The fetch button can have
\* been pressed only if the last run rendered it.  The query parameter and
\* the slider are kept only while the run still reads them.
Rerun ==
    /\ pc = "idle"
    /\ clock' \in clock .. MaxClock
    /\ \E c \in {None} \cup {Some(x) : x \in Codes},
          b \in {FALSE} \cup {button_shown},
          d \in WindowDays :
         LET exchanges == TruthyStr(c) /\ IsNone(token)
         IN  /\ button' = b
             /\ IF ConfigMissing(CLIENT_ID, CLIENT_SECRET)
                THEN /\ errors' = << << MissingConfigMsg >> >>
                     /\ pc' = "idle"
                     /\ code' = None /\ days' = 0
                     /\ button_shown' = FALSE
                ELSE /\ errors' = << >>
                     /\ pc' = IF exchanges THEN "exchange"
                              ELSE PcGate(token, clock', b)
                     /\ code' = IF exchanges THEN c ELSE None
                     /\ days' = IF b THEN d ELSE 0
                     /\ button_shown' = (~exchanges /\ ReachesStep2(token, clock'))
    /\ after' = 0 /\ page' = 0 /\ all_items' = << >>
    /\ acts' = << >> /\ idx' = 0 /\ detailed_rows' = << >> /\ lap_rows' = << >>
    /\ det' = None
    /\ exc' = "" /\ uncaught' = "" /\ downloads' = {} /\ files' = NoFiles
    /\ net' = << >> /\ lap_failed' = {}
    /\ UNCHANGED << config, session, reauth >>

\* Lines 141-151: the authorization code is exchanged.
Exchange ==
    /\ pc = "exchange"
    /\ \E resp \in TokenResponses(TRUE) :
         LET r == exchange_code_for_token(resp)
             nt == NewToken(r.val)
         IN  /\ net' = Append(net, Call("exchange", 0, << >>, code, resp.status, resp.body))
             /\ IF ~r.ok
                THEN /\ uncaught' = r.err /\ pc' = "idle" /\ reauth' = TRUE
                     /\ UNCHANGED << session, widgets >>
                ELSE IF ~nt.ok
                THEN /\ uncaught' = nt.err /\ pc' = "idle"
                     /\ UNCHANGED << session, widgets, reauth >>
                ELSE /\ token' = Some(nt.val)
                     /\ athlete' = GetOr(r.val, "athlete", Some(EmptyDict))
                     /\ reauth' = FALSE
                     /\ pc' = PcGate(token', clock, button)
                     /\ button_shown' = ReachesStep2(token', clock)
                     /\ UNCHANGED uncaught
    /\ UNCHANGED << config, clock, inputs, listLocals, loopLocals, exc, errors,
                    downloads, files, lap_failed >>

\* Lines 164-171: the held token is refreshed.
Refresh ==
    /\ pc = "refresh"
    /\ \E resp \in TokenResponses(~IsNone(Val(token).refresh_token)) :
         LET r == refresh_token(resp)
             ut == UpdatedToken(Val(token), r.val)
         IN  /\ net' = Append(net, Call("refresh", 0, << >>,
                                        Val(token).refresh_token, resp.status,
                                        resp.body))
             /\ IF ~r.ok
                THEN /\ uncaught' = r.err /\ pc' = "idle" /\ reauth' = TRUE
                     /\ UNCHANGED << token, widgets >>
                ELSE IF ~ut.ok
                THEN /\ uncaught' = ut.err /\ pc' = "idle"
                     /\ UNCHANGED << token, widgets, reauth >>
                ELSE /\ token' = Some(ut.val)
                     /\ pc' = PcStep2(button)
                     /\ button_shown' = TRUE
                     /\ UNCHANGED << uncaught, reauth >>
    /\ UNCHANGED << config, athlete, clock, inputs, listLocals, loopLocals, exc,
                    errors, downloads, files, lap_failed >>

\* ------------------------------------------------------------------ get_json
\* get_json: 401 raises RuntimeError("expired"), any other failure raises
\* from requests, a 200 returns the parsed body.
get_json(resp) ==
    IF resp.status = 401 THEN Raise("expired")
    ELSE IF resp.status # 200 THEN Raise(StatusError(resp.status))
    ELSE Return(resp.body)

\* int() of a tick count taken as seconds: truncation toward zero.
IntSec(ticks) ==
    IF ticks >= 0 THEN ticks \div TicksPerSec ELSE -((-ticks) \div TicksPerSec)

\* Line 47: int((now - timedelta(days=days)).timestamp())
AfterTimestamp(ticks, d) == IntSec(ticks - d * SECONDS_PER_DAY * TicksPerSec)

\* A list page of n activities whose ids follow s.
MakePage(n, s) == [i \in 1 .. n |-> [id |-> s + i]]

\* Pages of an athlete who holds at most MaxActs activities in the window.
AppPages == {MakePage(n, 0) : n \in 0 .. MaxActs}

\* Pages of any provider: empty, short and full ones, numbered from 0 or
\* from the page's own offset.
AnyPages ==
    {MakePage(n, s) : n \in {0, 1, PER_PAGE - 1, PER_PAGE},
                      s \in {0, (page - 1) * PER_PAGE}}

\* A data call answered by any provider: no response, 401, 500, or a body.
AnyResponses(bodies) ==
    {Response(s, None) : s \in FailStatuses} \cup {Response(200, b) : b \in bodies}

\* A data call answered by a plain provider: a server error, or a body.
PlainResponses(bodies) == {Response(500, None)} \cup {Response(200, b) : b \in bodies}

\* The access token the handler passes to every data call.
AccessToken == Val(token).access_token

\* The test of line 53 written with <= : a full page ends the list too.
ShortPageOff(arr) == Len(arr) <= PER_PAGE

\* Line 53: the page is the last one.
ShortPage(arr) == Len(arr) < PER_PAGE

\* Line 47-48: fetch_last_n_days is entered.
FetchStart ==
    /\ pc = "fetch"
    /\ after' = AfterTimestamp(clock, days)
    /\ page' = 1
    /\ all_items' = << >>
    /\ pc' = "list"
    /\ UNCHANGED << config, session, widgets, clock, inputs, loopLocals, exc, rendered,
                    net, history >>

\* Lines 49-55: one turn of the while loop, the page request included.
ListStep(responses) ==
    /\ pc = "list"
    /\ page <= MaxPages
    /\ \E resp \in responses :
         LET r == get_json(resp)
             arr == r.val
         IN  /\ net' = Append(net, Call("list", 0, << PER_PAGE, page, after >>,
                                        AccessToken, resp.status,
                                        IF r.ok THEN arr ELSE << >>))
             /\ IF ~r.ok
                THEN /\ exc' = r.err /\ pc' = "raised"
                     /\ UNCHANGED << page, all_items >>
                ELSE IF arr = << >>
                THEN /\ pc' = "listed"
                     /\ UNCHANGED << page, all_items, exc >>
                ELSE /\ all_items' = all_items \o arr
                     /\ IF ShortPage(arr)
                        THEN pc' = "listed" /\ page' = page
                        ELSE pc' = "list" /\ page' = page + 1
                     /\ UNCHANGED exc
    /\ UNCHANGED << config, session, widgets, clock, inputs, after, loopLocals, rendered,
                    history >>

\* ---------------------------------------------------------- flatten_activity
\* The keys of the dict flatten_activity builds, in the order it builds them.
ActivityFields ==
    << "id", "name", "type", "sport_type", "start_date", "start_date_local",
       "elapsed_time_sec", "moving_time_sec", "distance_m",
       "total_elevation_gain_m", "average_speed_mps", "max_speed_mps",
       "average_cadence", "average_heartrate", "max_heartrate",
       "weighted_average_watts", "average_watts", "device_watts",
       "average_temp", "elev_high_m", "elev_low_m", "pr_count", "kudos_count",
       "comment_count", "achievement_count", "gear_id", "distance_miles",
       "elev_gain_ft", "avg_pace_min_per_mile", "avg_speed_mph",
       "max_speed_mph" >>

\* The raw key a direct field is read from (lines 59-84).
RawKey(f) ==
    CASE f = "elapsed_time_sec" -> "elapsed_time"
      [] f = "moving_time_sec" -> "moving_time"
      [] f = "distance_m" -> "distance"
      [] f = "total_elevation_gain_m" -> "total_elevation_gain"
      [] f = "average_speed_mps" -> "average_speed"
      [] f = "max_speed_mps" -> "max_speed"
      [] f = "elev_high_m" -> "elev_high"
      [] f = "elev_low_m" -> "elev_low"
      [] OTHER -> f

\* Numbers are 32-bit here, so raw distances stay below 3456 m in total.
\* The derived fields are decimal fixed point: distance_miles in 1e-9 mile,
\* elev_gain_ft in 1e-5 foot, the speeds in 1e-3 mph; the pace is the exact
\* quotient 26.8224 / average_speed, kept as numerator and denominator.
MILES_PER_M_E9 == 621371
FT_PER_M_E5 == 328084
MPH_PER_MPS_E3 == 2237
PACE_NUM_E4 == 268224
PACE_SCALE == 10000

flatten_activity(a) ==
    [f \in {ActivityFields[i] : i \in 1 .. Len(ActivityFields)} |->
        CASE f = "distance_miles" -> OrZero(Get(a, "distance")) * MILES_PER_M_E9
          [] f = "elev_gain_ft" ->
                OrZero(Get(a, "total_elevation_gain")) * FT_PER_M_E5
          [] f = "avg_pace_min_per_mile" ->
                IF Truthy(Get(a, "average_speed"))
                THEN Some([num |-> PACE_NUM_E4,
                           den |-> PACE_SCALE * Val(Get(a, "average_speed"))])
                ELSE None
          [] f = "avg_speed_mph" -> OrZero(Get(a, "average_speed")) * MPH_PER_MPS_E3
          [] f = "max_speed_mph" -> OrZero(Get(a, "max_speed")) * MPH_PER_MPS_E3
          [] OTHER -> Get(a, RawKey(f))]

\* The keys of a lap row, in the order lines 188-202 build them.
LapFields ==
    << "activity_id", "lap_index", "name", "elapsed_time_sec", "moving_time_sec",
       "distance_m", "avg_speed_mps", "max_speed_mps", "avg_heartrate",
       "max_heartrate", "elev_gain_m", "elev_loss_m", "split" >>

LapRawKey(f) ==
    CASE f = "elapsed_time_sec" -> "elapsed_time"
      [] f = "moving_time_sec" -> "moving_time"
      [] f = "distance_m" -> "distance"
      [] f = "avg_speed_mps" -> "average_speed"
      [] f = "max_speed_mps" -> "max_speed"
      [] f = "avg_heartrate" -> "average_heartrate"
      [] f = "elev_gain_m" -> "total_elevation_gain"
      [] f = "elev_loss_m" -> "total_elevation_loss"
      [] OTHER -> f

\* The dict appended at lines 188-202 for lap L of the listed activity id.
LapRow(id, L) ==
    [f \in {LapFields[i] : i \in 1 .. Len(LapFields)} |->
        IF f = "activity_id" THEN Some(id) ELSE Get(L, LapRawKey(f))]

\* JSON values whose type the code does not check are tagged with it.
JDict(d) == [t |-> "dict", v |-> d]
JList(l) == [t |-> "list", items |-> l]
JStr(x) == [t |-> "str", s |-> x]
JNull == [t |-> "null"]

\* Lines 186-204: the laps of one activity.  The rows of the entries before
\* the first one that raises are already appended when the except clause
\* swallows the exception.
RECURSIVE AppendLaps(_, _, _)
AppendLaps(rows, id, entries) ==
    IF entries = << >> THEN [rows |-> rows, raised |-> FALSE]
    ELSE IF Head(entries).t # "dict" THEN [rows |-> rows, raised |-> TRUE]
    ELSE AppendLaps(Append(rows, LapRow(id, Head(entries).v)), id, Tail(entries))

LapsBlock(rows, id, resp) ==
    LET r == get_json(resp)
    IN  IF ~r.ok THEN [rows |-> rows, raised |-> TRUE]
        ELSE IF r.val.t = "list" THEN AppendLaps(rows, id, r.val.items)
        ELSE IF r.val.t = "dict" /\ DOMAIN r.val.v = {}
             THEN [rows |-> rows, raised |-> FALSE]
        ELSE [rows |-> rows, raised |-> TRUE]

\* ------------------------------------------------------------ the data frame
\* pd.DataFrame(list of dicts): the columns are the keys of the dicts in
\* their order; no rows, no columns.
DataFrame(rows, fields) ==
    [columns |-> IF rows = << >> THEN << >> ELSE fields, rows |-> rows]

\* df.to_csv(index=False): the header line, then one line per row.
to_csv(df) ==
    << df.columns >> \o
    [i \in 1 .. Len(df.rows) |->
        [j \in 1 .. Len(df.columns) |-> df.rows[i][df.columns[j]]]]

\* A timestamp is [date, time]; .dt.date keeps the date, NaT for a missing one.
DateOf(ts) == IF IsNone(ts) THEN None ELSE Some(Val(ts).date)

\* Line 94: df["date"] = ... adds the column to the caller's frame.
WithDate(df) ==
    [columns |-> Append(df.columns, "date"),
     rows |-> [i \in 1 .. Len(df.rows) |->
                 WithKey(df.rows[i], "date", DateOf(df.rows[i].start_date_local))]]

\* ------------------------------------------------------------ weekly_markdown
\* A text is a sequence of lines and a line a sequence of string pieces.
\* The sport types the provider uses, in ascending order of the label.
SportLabels == << "Ride", "Run", "Swim" >>

RECURSIVE SumOpt(_, _, _)
SumOpt(rows, I, f) ==
    IF I = {} THEN 0
    ELSE LET i == CHOOSE x \in I : TRUE
         IN  OrZero(rows[i][f]) + SumOpt(rows, I \ {i}, f)

RECURSIVE SumNum(_, _, _)
SumNum(rows, I, f) ==
    IF I = {} THEN 0
    ELSE LET i == CHOOSE x \in I : TRUE
         IN  rows[i][f] + SumNum(rows, I \ {i}, f)

\* "{h}h {m}m" of a number of seconds.
FmtHM(sec) == << ToString(sec \div 3600), "h ", ToString((sec % 3600) \div 60), "m" >>

\* One decimal of a distance held in 1e-9 mile.
FmtMiles(x) ==
    LET t == (x + 50000000) \div 100000000
    IN  << ToString(t \div 10), ".", ToString(t % 10) >>

\* The rows of one sport type, as positions in the frame.
GroupOf(df, sp) ==
    {i \in 1 .. Len(df.rows) :
        ~IsNone(df.rows[i].sport_type) /\ Val(df.rows[i].sport_type) = sp}

\* The groups in descending order of the label.
BySportDescending(df) ==
    LET n == Len(SportLabels)
    IN  SelectSeq([k \in 1 .. n |-> SportLabels[n + 1 - k]],
                  LAMBDA sp : GroupOf(df, sp) # {})

\* Lines 98-101: the groups, ascending by label; rows without a sport type
\* belong to none.
BySport(df) ==
    SelectSeq(SportLabels, LAMBDA sp : GroupOf(df, sp) # {})

\* "{x:.0f}" of the mean s / n: the nearest integer, a half to the even one.
FmtMean(s, n) ==
    LET q == s \div n
        r == s % n
    IN  ToString(IF 2 * r > n \/ (2 * r = n /\ q % 2 = 1) THEN q + 1 ELSE q)

\* Lines 105-109: the line of one group.
GroupLine(df, sp) ==
    LET g == GroupOf(df, sp)
        sessions == Cardinality({i \in g : ~IsNone(df.rows[i].id)})
        hr == {i \in g : ~IsNone(df.rows[i].average_heartrate)}
        n == Cardinality(hr)
        base == << "- **", sp, "**: ", ToString(sessions), " sessions, " >>
                  \o FmtHM(SumOpt(df.rows, g, "moving_time_sec")) \o << ", " >>
                  \o FmtMiles(SumNum(df.rows, g, "distance_miles")) \o << " mi" >>
    IN  IF n > 0
        THEN base \o << ", avg HR ",
                        FmtMean(SumOpt(df.rows, hr, "average_heartrate"), n) >>
        ELSE base

\* Lines 112-116: sort_values(ascending=False).iloc[0] is a row of greatest
\* distance; the default sort is not stable, so among equal distances it may
\* be any of them.
Longest(df, sp) ==
    {i \in GroupOf(df, sp) :
        \A j \in GroupOf(df, sp) :
            df.rows[j].distance_miles <= df.rows[i].distance_miles}

LongLine(df, sp, i) ==
    << "- ", sp, ": " >> \o FmtMiles(df.rows[i].distance_miles) \o
    << " mi on ",
       IF IsNone(df.rows[i].date) THEN "NaT" ELSE ToString(Val(df.rows[i].date)) >>

\* The message of line 93 worded with the requested window.
NoActivityReportWindow ==
    << << "# Weekly Training Summary" >>, << >>,
       << "No activities in the last ", ToString(days), " days." >> >>

NoActivityReport ==
    << << "# Weekly Training Summary" >>, << >>,
       << "No activities in the last 7 days." >> >>

ClosingLine ==
    << "> Paste this in ChatGPT and ask: Review this report and propose my plan for next week (Ironman focus)." >>

\* The report of a frame that already carries its date column, with the
\* longest session of each group as picked.
Report(df, pick) ==
    LET sports == BySport(df)
        all == 1 .. Len(df.rows)
        longs == [k \in 1 .. Len(sports) |-> LongLine(df, sports[k], pick[sports[k]])]
    IN  << << "# Weekly Training Summary (last 7 days)" >>, << >>,
           << "**Total**: " >> \o FmtMiles(SumNum(df.rows, all, "distance_miles"))
              \o << " miles across **" >>
              \o FmtHM(SumOpt(df.rows, all, "moving_time_sec")) \o << "**" >>,
           << >> >>
        \o [k \in 1 .. Len(sports) |-> GroupLine(df, sports[k])]
        \o << << >> >>
        \o (IF longs # << >>
            THEN << << "**Longest Sessions**" >> >> \o longs \o << << >> >>
            ELSE << >>)
        \o << ClosingLine >>

\* weekly_markdown(df): every text it may return, each with the frame as the
\* call leaves it.
weekly_markdown(df) ==
    IF df.rows = << >> THEN {[md |-> NoActivityReport, df |-> df]}
    ELSE LET dated == WithDate(df)
             sports == {SportLabels[k] : k \in 1 .. Len(SportLabels)}
             picks == {p \in [sports -> 0 .. Len(df.rows)] :
                         \A sp \in sports :
                            IF GroupOf(dated, sp) = {} THEN p[sp] = 0
                            ELSE p[sp] \in Longest(dated, sp)}
         IN  {[md |-> Report(dated, p), df |-> dated] : p \in picks}

\* ------------------------------------------------- the fetch button handler
\* What a provider may answer for the detail of the listed activity id: a
\* full run, a sparse ride carrying another id, or null.
RawFull(id) ==
    [id |-> Some(id), name |-> Some("Morning Run"), type |-> Some("Run"),
     sport_type |-> Some("Run"),
     start_date_local |-> Some([date |-> 20240100 + id, time |-> 800]),
     moving_time |-> Some(1800), distance |-> Some(800),
     average_speed |-> Some(3), average_heartrate |-> Some(150)]

RawSparse(id) ==
    [id |-> Some(0), sport_type |-> Some("Ride"), distance |-> Some(800)]

AnyDetail(id) == AnyResponses({JDict(RawFull(id)), JDict(RawSparse(id)), JNull})

\* What a plain provider answers for it: the full run.
PlainDetail(id) == PlainResponses({JDict(RawFull(id))})

\* The id of the first listed activity, whatever activity the loop is at.
FirstId == acts[1].id

\* The id of the activity the loop is at.
CurrentId == acts[idx].id

\* What the provider may answer for the laps: a failure (every failure is
\* swallowed alike, so 401 and 500 stand for them), a list whose entries are
\* lap objects or strings, an error object, or null.
RawLap(i) ==
    [lap_index |-> Some(i), name |-> Some("Lap"), elapsed_time |-> Some(600),
     distance |-> Some(1000)]

AnyLaps ==
    {Response(401, None), Response(500, None)} \cup
    {Response(200, b) : b \in
    {JList([i \in 1 .. Len(shape) |->
              IF shape[i] THEN JDict(RawLap(i)) ELSE JStr("x")]) :
        shape \in UNION {[1 .. n -> BOOLEAN] : n \in 0 .. MaxLaps}}
    \cup {JDict([message |-> Some("Record Not Found")]), JNull}}

\* What a plain provider answers for the laps: one lap.
PlainLaps == PlainResponses({JList(<< JDict(RawLap(1)) >>)})

\* Lines 180-182: the list is back, the loop over it begins.
LoopStart ==
    /\ pc = "listed"
    /\ acts' = all_items
    /\ detailed_rows' = << >>
    /\ lap_rows' = << >>
    /\ idx' = 1
    /\ pc' = IF all_items = << >> THEN "export" ELSE "detail"
    /\ UNCHANGED << config, session, widgets, clock, inputs, listLocals, det, exc,
                    rendered, net, history >>

\* Lines 183-184: the detail of acts[idx] is fetched and flattened.
DetailStep(responses) ==
    /\ pc = "detail"
    /\ \E resp \in responses :
         LET r == get_json(resp)
         IN  /\ net' = Append(net, Call("detail", CurrentId,
                                        << "include_all_efforts" >>,
                                        AccessToken, resp.status, << >>))
             /\ det' = IF r.ok THEN r.val ELSE det
             /\ IF ~r.ok
                THEN /\ exc' = r.err /\ pc' = "raised"
                     /\ UNCHANGED detailed_rows
                ELSE IF r.val.t # "dict"
                THEN /\ exc' = "AttributeError" /\ pc' = "raised"
                     /\ UNCHANGED detailed_rows
                ELSE /\ detailed_rows' =
                            Append(detailed_rows, flatten_activity(r.val.v))
                     /\ pc' = "laps"
                     /\ UNCHANGED exc
    /\ UNCHANGED << config, session, widgets, clock, inputs, listLocals, acts, idx,
                    lap_rows, rendered, history >>

\* Lines 185-204: the laps of acts[idx], then the next activity.
LapsStep(responses) ==
    /\ pc = "laps"
    /\ \E resp \in responses :
         LET res == LapsBlock(lap_rows, CurrentId, resp)
         IN  /\ net' = Append(net, Call("laps", CurrentId, << >>,
                                        AccessToken, resp.status, << >>))
             /\ lap_rows' = res.rows
             /\ lap_failed' = IF res.raised THEN lap_failed \cup {idx}
                              ELSE lap_failed
    /\ IF idx < Len(acts)
       THEN idx' = idx + 1 /\ pc' = "detail"
       ELSE idx' = idx /\ pc' = "export"
    /\ UNCHANGED << config, session, widgets, clock, inputs, listLocals, acts,
                    detailed_rows, det, exc, rendered, reauth >>

ArtifactNames == {"activities_detailed.csv", "laps.csv", "weekly_report.md"}

\* Lines 206-230: the frames, the report, the files and the download buttons.
Export ==
    /\ pc = "export"
    /\ \E wm \in weekly_markdown(DataFrame(detailed_rows, ActivityFields)) :
         files' = [activities |-> to_csv(wm.df),
                   laps |-> to_csv(DataFrame(lap_rows, LapFields)),
                   report |-> wm.md,
                   zip |-> << NowSec(clock) \div SECONDS_PER_DAY, ArtifactNames >>]
    /\ downloads' = ArtifactNames \cup {"PaceIQ.zip"}
    /\ pc' = "idle"
    /\ UNCHANGED << config, session, widgets, clock, inputs, listLocals, loopLocals, exc,
                    errors, uncaught, net, history >>

\* The handler of lines 231-232 written as "except Exception: pass".
CatchSwallow ==
    /\ pc = "raised"
    /\ pc' = "idle"
    /\ UNCHANGED << config, session, widgets, clock, inputs, listLocals, loopLocals, exc,
                    rendered, net, history >>

\* The handler of lines 231-232 if it also dropped the session's token.
CatchForgetsToken ==
    /\ pc = "raised"
    /\ errors' = Append(errors, << "Error: ", exc >>)
    /\ token' = None
    /\ pc' = "idle"
    /\ UNCHANGED << config, athlete, widgets, clock, inputs, listLocals, loopLocals,
                    exc, uncaught, downloads, files, net, history >>

\* Lines 231-232: whatever the try block raised is rendered as one error.
Catch ==
    /\ pc = "raised"
    /\ errors' = Append(errors, << "Error: ", exc >>)
    /\ pc' = "idle"
    /\ UNCHANGED << config, session, widgets, clock, inputs, listLocals, loopLocals, exc,
                    uncaught, downloads, files, net, history >>

\* ------------------------------------------------------------ the application
\* The whole script, run after run, against a plain provider.
\* What a plain provider can answer to one request for a page of activities.
AppListResponses == PlainResponses(AppPages)
AppList == ListStep(AppListResponses)
AppDetail == DetailStep(PlainDetail(CurrentId))
AppLaps == LapsStep(PlainLaps)

Init ==
    /\ CLIENT_ID \in {"", "cid"} /\ CLIENT_SECRET \in {"", "secret"}
    /\ token = None /\ athlete = None /\ button_shown = FALSE
    /\ clock = 0
    /\ code = None /\ button = FALSE /\ days = 0
    /\ pc = "idle"
    /\ after = 0 /\ page = 0 /\ all_items = << >>
    /\ acts = << >> /\ idx = 0 /\ detailed_rows = << >> /\ lap_rows = << >>
    /\ det = None
    /\ exc = "" /\ errors = << >> /\ uncaught = "" /\ downloads = {}
    /\ files = NoFiles /\ net = << >> /\ lap_failed = {} /\ reauth = FALSE

Next ==
    \/ Rerun \/ Exchange \/ Refresh
    \/ FetchStart \/ AppList \/ LoopStart \/ AppDetail \/ AppLaps
    \/ Export \/ Catch

Spec == Init /\ [][Next]_vars

\* ------------------------------------------------ the fetch handler on its own
\* One press of the fetch button in a session that holds a token, against a
\* provider that may answer anything.
FetchInit ==
    /\ CLIENT_ID = "cid" /\ CLIENT_SECRET = "secret"
    /\ token \in {Some([access_token |-> Some(a), refresh_token |-> Some("R1"),
                        expires_at |-> Some(MaxClock)]) : a \in AccessTokens}
    /\ athlete = Some(EmptyDict) /\ button_shown = TRUE
    /\ clock = 0
    /\ code = None /\ button = TRUE /\ days \in WindowDays
    /\ pc = "fetch"
    /\ after = 0 /\ page = 0 /\ all_items = << >>
    /\ acts = << >> /\ idx = 0 /\ detailed_rows = << >> /\ lap_rows = << >>
    /\ det = None
    /\ exc = "" /\ errors = << >> /\ uncaught = "" /\ downloads = {}
    /\ files = NoFiles /\ net = << >> /\ lap_failed = {} /\ reauth = FALSE

\* What any provider can answer to one request for a page of activities.
FetchListResponses == AnyResponses(AppPages)
FetchList == ListStep(FetchListResponses)
FetchDetail == DetailStep(AnyDetail(CurrentId))
FetchLaps == LapsStep(AnyLaps)

FetchNext ==
    \/ FetchStart \/ FetchList \/ LoopStart \/ FetchDetail \/ FetchLaps
    \/ Export \/ Catch

FetchSpec == FetchInit /\ [][FetchNext]_vars

\* --------------------------------------------- fetch_last_n_days on its own
\* fetch_last_n_days(tok, days) called with any provider behind it; the call
\* has returned at pc = "listed" and has raised at pc = "raised".
ListInit ==
    /\ CLIENT_ID = "cid" /\ CLIENT_SECRET = "secret"
    /\ token \in {Some([access_token |-> Some(a), refresh_token |-> None,
                        expires_at |-> None]) : a \in AccessTokens}
    /\ athlete = None /\ button_shown = TRUE
    /\ clock \in 0 .. MaxClock
    /\ code = None /\ button = TRUE /\ days \in WindowDays
    /\ pc = "fetch"
    /\ after = 0 /\ page = 0 /\ all_items = << >>
    /\ acts = << >> /\ idx = 0 /\ detailed_rows = << >> /\ lap_rows = << >>
    /\ det = None
    /\ exc = "" /\ errors = << >> /\ uncaught = "" /\ downloads = {}
    /\ files = NoFiles /\ net = << >> /\ lap_failed = {} /\ reauth = FALSE

ListAny == ListStep(AnyResponses(AnyPages))

\* Time passes while the call runs.
ListTick ==
    /\ pc \in {"fetch", "list"}
    /\ clock < MaxClock
    /\ clock' = clock + 1
    /\ UNCHANGED << config, session, widgets, inputs, pc, listLocals, loopLocals, exc,
                    rendered, net, history >>

ListNext == FetchStart \/ ListAny \/ ListTick

ListSpec == ListInit /\ [][ListNext]_vars

\* ---------------------------------------------- flatten_activity on its own
\* The raw keys flatten_activity reads, and a value of each one's type.
RawKeys == {RawKey(ActivityFields[i]) : i \in 1 .. 26}

RawValue(k) ==
    CASE k \in {"name", "type", "sport_type", "start_date", "gear_id"} -> Some(k)
      [] k = "start_date_local" -> Some([date |-> 20240101, time |-> 800])
      [] k = "device_watts" -> Some(TRUE)
      [] k = "distance" -> Some(800)
      [] OTHER -> Some(7)

\* The keys whose value feeds a derived field.
BaseKeys == {"distance", "total_elevation_gain", "average_speed", "max_speed"}

\* Raw activities: every base key absent, null, 0 or a value; of the other
\* keys none, one or all missing, as an absent key or as a null.
RawActivities ==
    LET others == RawKeys \ BaseKeys
        drops == {{}, others} \cup {{k} : k \in others}
    IN  {[k \in {x \in RawKeys :
                   IF x \in BaseKeys THEN b[x] # "absent"
                   ELSE ~(x \in d /\ how = "absent")} |->
            IF k \in BaseKeys
            THEN (CASE b[k] = "null" -> None
                    [] b[k] = "zero" -> Some(0)
                    [] OTHER -> RawValue(k))
            ELSE IF k \in d THEN None ELSE RawValue(k)] :
         b \in [BaseKeys -> {"absent", "null", "zero", "value"}],
         d \in drops, how \in {"absent", "null"}}

\* flatten_activity(det) is about to be called with any raw activity.
FlattenInit ==
    /\ CLIENT_ID = "cid" /\ CLIENT_SECRET = "secret"
    /\ token = Some([access_token |-> Some("A1"), refresh_token |-> None,
                     expires_at |-> None])
    /\ athlete = None /\ button_shown = TRUE
    /\ clock = 0
    /\ code = None /\ button = TRUE /\ days = 7
    /\ pc = "flatten"
    /\ after = 0 /\ page = 1 /\ all_items = << [id |-> 1] >>
    /\ acts = << [id |-> 1] >> /\ idx = 1 /\ detailed_rows = << >>
    /\ lap_rows = << >>
    /\ det \in {JDict(a) : a \in RawActivities}
    /\ exc = "" /\ errors = << >> /\ uncaught = "" /\ downloads = {}
    /\ files = NoFiles /\ net = << >> /\ lap_failed = {} /\ reauth = FALSE

\* Line 184: detailed_rows.append(flatten_activity(det)).
FlattenCall ==
    /\ pc = "flatten"
    /\ detailed_rows' = Append(detailed_rows, flatten_activity(det.v))
    /\ pc' = "flattened"
    /\ UNCHANGED << config, session, widgets, clock, inputs, listLocals, acts, idx,
                    lap_rows, det, exc, rendered, net, history >>

FlattenNext == FlattenCall

FlattenSpec == FlattenInit /\ [][FlattenNext]_vars

\* ------------------------------------------------ weekly_markdown on its own
\* The records of a fetch: record i is flatten_activity of the detail of
\* activity i, which may lack its sport type, distance, heart rate or moving
\* time; its local start date tells the records apart.
ReportRows(i) ==
    {flatten_activity([id |-> Some(i), sport_type |-> sp, distance |-> d,
                       average_heartrate |-> h, moving_time |-> m,
                       start_date_local |->
                           Some([date |-> 20240100 + i, time |-> 800])]) :
        sp \in {None, Some("Run"), Some("Ride")},
        d \in {None, Some(800)},
        h \in {None, Some(150), Some(153)},
        m \in {None, Some(1800)}}

RECURSIVE RecordSeqs(_)
RecordSeqs(n) ==
    IF n = 0 THEN {<< >>}
    ELSE {Append(rows, r) : rows \in RecordSeqs(n - 1), r \in ReportRows(n)}

\* The handler is at line 206 with any records of at most MaxActs activities.
ReportInit ==
    /\ CLIENT_ID = "cid" /\ CLIENT_SECRET = "secret"
    /\ token = Some([access_token |-> Some("A1"), refresh_token |-> None,
                     expires_at |-> None])
    /\ athlete = None /\ button_shown = TRUE
    /\ clock = 0
    /\ code = None /\ button = TRUE /\ days \in WindowDays
    /\ pc = "export"
    /\ after = 0 /\ page = 1
    /\ \E n \in 0 .. MaxActs :
          /\ all_items = MakePage(n, 0)
          /\ acts = MakePage(n, 0)
          /\ idx = IF n = 0 THEN 1 ELSE n
          /\ detailed_rows \in RecordSeqs(n)
    /\ lap_rows = << >>
    /\ det = None
    /\ exc = "" /\ errors = << >> /\ uncaught = "" /\ downloads = {}
    /\ files = NoFiles /\ net = << >> /\ lap_failed = {} /\ reauth = FALSE

ReportNext == Export

ReportSpec == ReportInit /\ [][ReportNext]_vars

\* ==================================================================== claims
\* The data calls of this run that were answered 401.
Unauthorized == {i \in 1 .. Len(net) : net[i].kind \in DataKinds /\ net[i].status = 401}

\* The message get_json raises for a failed status.
RaisedText(status) == IF status = 401 THEN "expired" ELSE StatusError(status)

\* The items of all list pages received, in request order.
RECURSIVE Received(_)
Received(log) == IF log = << >> THEN << >> ELSE Head(log).got \o Received(Tail(log))

\* The lap rows carrying the id of the activity at position i of the list.
LapRowsOf(i) == {k \in 1 .. Len(lap_rows) : lap_rows[k].activity_id = Some(acts[i].id)}

\* C1 (FetchSpec): a fetch in which exactly one data call was answered 401
\* ends with no error rendered, and that call was followed by a refresh and
\* by the same request once more.
C1_Single401Transparent ==
    (pc = "idle" /\ Cardinality(Unauthorized) = 1) =>
        /\ errors = << >>
        /\ \A i \in Unauthorized :
              /\ i + 2 <= Len(net)
              /\ net[i + 1].kind = "refresh"
              /\ net[i + 2].kind = net[i].kind
              /\ net[i + 2].id = net[i].id
              /\ net[i + 2].params = net[i].params

\* C2 (ListSpec): the page requests of one fetch_last_n_days call are
\* bounded: a call that is still running has issued fewer than MaxPages
\* requests, whatever the provider answers.
C2_PageRequestsBounded == pc = "list" => Len(net) < MaxPages

\* C3 (FetchSpec): an activity whose laps block raised has no lap row, even
\* when it raised part-way through the entries; a fetch that offers its
\* export has one activity row per listed activity; and what the laps block
\* raised is never the exception the handler reports.
C3_LapFailureYieldsNoLaps ==
    /\ \A i \in lap_failed : LapRowsOf(i) = {}
    /\ (downloads # {} => Len(detailed_rows) = Len(acts))
    /\ (exc # "" => net[Len(net)].kind \in {"list", "detail"})

\* C4 (FetchSpec): a list or detail request that failed is the last request
\* of the run, no artifact is built or offered, and once the handler has
\* ended exactly one error is rendered, carrying the failure's message.
C4_FatalFetchAborts ==
    \A i \in 1 .. Len(net) :
        (net[i].kind \in {"list", "detail"} /\ net[i].status # 200) =>
            /\ i = Len(net)
            /\ downloads = {} /\ files = NoFiles
            /\ \/ pc = "raised" /\ errors = << >>
               \/ /\ pc = "idle"
                  /\ errors = << << "Error: ", RaisedText(net[i].status) >> >>

\* C4's case: the detail of the second activity failed, after the first
\* activity's detail and laps, and the error is rendered.
C4_Witness ==
    /\ pc = "idle" /\ Len(net) = 4
    /\ net[4].kind = "detail" /\ net[4].status = 500
    /\ errors = << << "Error: ", "500 Server Error" >> >>

\* C5 (ListSpec): request i asks for page i with per_page 100 and the
\* lower bound of the first request; every request but the last was answered
\* a full page; the call returns only after a page of fewer than 100 items,
\* with the items of all pages received, in order.
C5_Pagination ==
    /\ \A i \in 1 .. Len(net) :
          /\ net[i].kind = "list"
          /\ net[i].params = << 100, i, net[1].params[3] >>
    /\ \A i \in 1 .. Len(net) - 1 : net[i].status = 200 /\ Len(net[i].got) = 100
    /\ (pc = "list" /\ net # << >>) =>
          net[Len(net)].status = 200 /\ Len(net[Len(net)].got) = 100
    /\ pc = "listed" =>
          /\ net[Len(net)].status = 200
          /\ Len(net[Len(net)].got) < 100
          /\ all_items = Received(net)
    /\ pc = "raised" => net[Len(net)].status # 200

\* C5's case: two full pages, then a short one, and the call has returned.
C5_Witness ==
    /\ pc = "listed" /\ Len(net) = 3
    /\ Len(net[3].got) = 1
    /\ Len(all_items) = 2 * PER_PAGE + 1

\* The run is inside the fetch button handler.
InHandler == pc \in {"fetch", "list", "listed", "detail", "laps", "export", "raised"}

\* The held token is expired on the clock: its expiry is missing or passed.
ExpiredOnClock ==
    \/ IsNone(Val(token).expires_at)
    \/ clock >= Val(Val(token).expires_at) * TicksPerSec

\* C6 (Spec): with the client id or the client secret empty, no run makes a
\* network call, none gets past the configuration check, no token is ever
\* held, and all a run renders is the missing-configuration error.
C6_NoCallWithoutConfig ==
    (CLIENT_ID = "" \/ CLIENT_SECRET = "") =>
        /\ net = << >>
        /\ pc = "idle"
        /\ IsNone(token)
        /\ downloads = {}
        /\ errors \in {<< >>, << << MissingConfigMsg >> >>}

\* C6's case: only the secret is missing, a run has happened and has
\* reported it.
C6_Witness ==
    /\ CLIENT_ID # "" /\ CLIENT_SECRET = ""
    /\ errors = << << MissingConfigMsg >> >>

\* C7 (Spec): a run is about to refresh only when the held token's expiry is
\* missing or now >= expires_at, and a run that entered the handler without
\* a refresh holds a token with now < expires_at.
C7_RefreshIffExpired ==
    /\ pc = "refresh" => ~IsNone(token) /\ ExpiredOnClock
    /\ (InHandler /\ \A i \in 1 .. Len(net) : net[i].kind # "refresh") =>
          ~IsNone(token) /\ ~ExpiredOnClock

\* C7's case: a refresh is triggered at the very tick the token expires.
C7_Witness ==
    /\ pc = "refresh"
    /\ ~IsNone(Val(token).expires_at)
    /\ clock = Val(Val(token).expires_at) * TicksPerSec

\* C8 (Spec): a refresh the provider accepted leaves the token with the
\* response's access token and expiry, with the response's refresh token if
\* it carries one and the prior one otherwise; a refresh token that was
\* present is never absent afterwards.
C8_RefreshKeepsRefreshToken ==
    [][(pc = "refresh" /\ pc' # "refresh") =>
         LET c == net'[Len(net')]
             old == Val(token)
             new == Val(token')
         IN  /\ (c.status = 200 /\ "access_token" \in DOMAIN c.got) =>
                   /\ new.access_token = c.got.access_token
                   /\ new.expires_at = Get(c.got, "expires_at")
                   /\ new.refresh_token =
                         IF IsNone(Get(c.got, "refresh_token"))
                         THEN old.refresh_token
                         ELSE c.got.refresh_token
             /\ ~IsNone(old.refresh_token) => ~IsNone(new.refresh_token)]_vars

\* C9 (Spec): a token call the provider rejected is the last network call of
\* its run, and from then on no list, detail or laps request is issued until
\* an authorization code exchange has succeeded.
C9_HaltUntilReauthorized ==
    /\ \A i \in 1 .. Len(net) :
          (net[i].kind \in TokenKinds /\ net[i].status # 200) =>
              i = Len(net) /\ pc = "idle"
    /\ reauth => \A i \in 1 .. Len(net) : net[i].kind \notin DataKinds

\* C10 (FetchSpec): a fetch that offers its export wrote the activities table
\* under the fields of flatten_activity in their order and the laps table
\* under the lap fields in their order, and the activities table is the
\* table of the rows as they were before the report was built.
C10_ExportHeaders ==
    downloads # {} =>
        /\ files.activities[1] = ActivityFields
        /\ files.laps[1] = LapFields
        /\ files.activities = to_csv(DataFrame(detailed_rows, ActivityFields))

\* The direct fields of a record: those read from the raw activity as is.
DirectFields == {ActivityFields[i] : i \in 1 .. 26}

\* A raw number is missing: its key is absent or its value is null.
Missing(a, k) == IsNone(Get(a, k))

\* C11 (FlattenSpec): flatten_activity returns a record of all its fields for
\* every raw activity; with the average speed missing or 0 the pace is absent
\* and avg_speed_mph is 0; with the average speed present and not 0 the pace
\* is present, a quotient with a non-zero denominator; max_speed_mph is 0
\* when the max speed is missing; and every direct field that is missing in
\* the raw activity is absent in the record, not zero.
C11_FlattenDenominators ==
    pc = "flattened" =>
        LET a == det.v
            r == detailed_rows[Len(detailed_rows)]
            zero == Missing(a, "average_speed") \/ Val(a.average_speed) = 0
        IN  /\ DOMAIN r = {ActivityFields[i] : i \in 1 .. Len(ActivityFields)}
            /\ zero => IsNone(r.avg_pace_min_per_mile) /\ r.avg_speed_mph = 0
            /\ ~zero => /\ ~IsNone(r.avg_pace_min_per_mile)
                        /\ Val(r.avg_pace_min_per_mile).den # 0
            /\ Missing(a, "max_speed") => r.max_speed_mph = 0
            /\ \A f \in DirectFields : Missing(a, RawKey(f)) => IsNone(r[f])

\* C11's case: a raw activity with average speed 0 and no max speed has
\* been flattened.
C11_Witness ==
    /\ pc = "flattened"
    /\ "average_speed" \in DOMAIN det.v /\ det.v.average_speed = Some(0)
    /\ "max_speed" \notin DOMAIN det.v
    /\ detailed_rows[1].avg_speed_mph = 0

\* The report the run wrote, and the records it was built from.
Built == pc = "idle" /\ downloads # {}

\* The sport-type values occurring in the records, and the records of one.
ReportSports ==
    {Val(detailed_rows[i].sport_type) :
        i \in {j \in 1 .. Len(detailed_rows) : ~IsNone(detailed_rows[j].sport_type)}}

RecordsOf(sp) ==
    {i \in 1 .. Len(detailed_rows) : detailed_rows[i].sport_type = Some(sp)}

\* The record of a group with the greatest distance_miles, the first in
\* input order among equals.
FirstLongest(sp) ==
    CHOOSE i \in RecordsOf(sp) :
        \A j \in RecordsOf(sp) :
            \/ detailed_rows[j].distance_miles < detailed_rows[i].distance_miles
            \/ /\ detailed_rows[j].distance_miles = detailed_rows[i].distance_miles
               /\ i <= j

\* The line that lists record i as the longest session of sp.
ListedAs(sp, i) ==
    << "- ", sp, ": " >> \o FmtMiles(detailed_rows[i].distance_miles) \o
    << " mi on ", ToString(Val(detailed_rows[i].start_date_local).date) >>

\* The lines between the Longest Sessions heading at line h and the blank
\* line before the closing suggestion.
LongestSection(h) == SubSeq(files.report, h + 1, Len(files.report) - 2)

\* C12 (ReportSpec): the report of a non-empty record set lists under
\* Longest Sessions exactly one line per sport-type group, and the line of a
\* group names the group's record of greatest distance_miles, the first in
\* input order when several records share that distance.
C12_LongestFirstOfTies ==
    (Built /\ ReportSports # {}) =>
        \E h \in 1 .. Len(files.report) :
            /\ files.report[h] = << "**Longest Sessions**" >>
            /\ Len(LongestSection(h)) = Cardinality(ReportSports)
            /\ \A sp \in ReportSports :
                  \E k \in 1 .. Len(LongestSection(h)) :
                      LongestSection(h)[k] = ListedAs(sp, FirstLongest(sp))

\* Label a sorts before label b.
LabelBefore(a, b) ==
    \/ a = "Ride" /\ b \in {"Run", "Swim"}
    \/ a = "Run" /\ b = "Swim"

\* The records of a group that have a heart-rate value.
WithHeartRate(sp) ==
    {i \in RecordsOf(sp) : ~IsNone(detailed_rows[i].average_heartrate)}

\* Summary line k of the report: the lines after the title, a blank line,
\* the totals and a blank line.
SummaryLine(k) == files.report[4 + k]

C14_EmptyReport ==
    (Built /\ detailed_rows = << >>) =>
        files.report = << << "# Weekly Training Summary" >>, << >>,
                          << "No activities in the last 7 days." >> >>

\* C14's case: the report of no records was built for a window of 28 days.
C14_Witness ==
    /\ Built /\ detailed_rows = << >> /\ days = 28
    /\ Len(files.report) = 3

\* The last network call made.
LastCall(log) == log[Len(log)]

\* C15 (Spec): the session's token changes only in a step that completes a
\* code exchange the provider accepted, made while no token was held, or a
\* refresh the provider accepted of the token held; no step of the fetch
\* handler, whether it goes on, exports or reports an error, changes it.
C15_TokenOwnership ==
    [][/\ token' # token =>
            /\ ~IsNone(token')
            /\ Len(net') = Len(net) + 1
            /\ LastCall(net').status = 200
            /\ \/ pc = "exchange" /\ IsNone(token) /\ LastCall(net').kind = "exchange"
               \/ pc = "refresh" /\ ~IsNone(token) /\ LastCall(net').kind = "refresh"
       /\ InHandler => token' = token]_vars

\* C15's case: a run refreshed the token, fetched, failed on a data request
\* and reported the error, and the token is still held.
C15_Witness ==
    /\ pc = "idle" /\ ~IsNone(token)
    /\ Len(errors) = 1 /\ errors[1][1] = "Error: "
    /\ \E i \in 1 .. Len(net) : net[i].kind = "refresh" /\ net[i].status = 200
    /\ LastCall(net).kind = "detail" /\ LastCall(net).status # 200

\* The list requests of this run.
ListCalls == {i \in 1 .. Len(net) : net[i].kind = "list"}

\* C16 (FetchSpec): the list requests come first; after them request 2k-1
\* is the detail and request 2k the laps of the k-th listed activity, so each
\* listed activity gets one detail and one laps request, in list order; and
\* a fetch that offers its export has made both requests for every listed
\* activity and holds one record per listed activity.
C16_RequestOrder ==
    LET nl == Cardinality(ListCalls)
    IN  /\ ListCalls = 1 .. nl
        /\ (Len(net) > nl) => /\ acts = Received(net)
                              /\ Len(net) <= nl + 2 * Len(acts)
        /\ \A i \in nl + 1 .. Len(net) :
              LET k == (i - nl + 1) \div 2
              IN  /\ net[i].kind = IF (i - nl) % 2 = 1 THEN "detail" ELSE "laps"
                  /\ net[i].id = acts[k].id
        /\ downloads # {} =>
              /\ acts = Received(net)
              /\ Len(net) = nl + 2 * Len(acts)
              /\ Len(detailed_rows) = Len(acts)

\* C16's case: two activities were listed and the fetch completed after five
\* requests.
C16_Witness ==
    /\ downloads # {} /\ Len(acts) = 2 /\ Len(net) = 5
    /\ net[4].kind = "detail" /\ net[4].id = 2

\* C17 (FetchSpec): in a fetch that offers its export, the activity_id of
\* every lap row is the id of one of the activity records of that fetch,
\* whatever id the detail responses carried.
C17_LapForeignKey ==
    downloads # {} =>
        \A k \in 1 .. Len(lap_rows) :
            \E i \in 1 .. Len(detailed_rows) :
                detailed_rows[i].id = lap_rows[k].activity_id

\* The first list, detail or laps request of this run, 0 if there is none.
FirstDataCall ==
    IF \E i \in 1 .. Len(net) : net[i].kind \in DataKinds
    THEN CHOOSE i \in 1 .. Len(net) :
             /\ net[i].kind \in DataKinds
             /\ \A j \in 1 .. i - 1 : net[j].kind \notin DataKinds
    ELSE 0

\* C18 (Spec): a run that has issued a data request holds a token, and
\* either its token is not expired on the clock of the run or an accepted
\* refresh precedes the first data request; every data request carries the
\* access token held; and a code exchange is under way only while no token
\* is held.
C18_CredentialBeforeData ==
    /\ FirstDataCall # 0 =>
          /\ ~IsNone(token)
          /\ \/ \E j \in 1 .. FirstDataCall - 1 :
                    net[j].kind = "refresh" /\ net[j].status = 200
             \/ ~ExpiredOnClock
          /\ \A i \in 1 .. Len(net) :
                net[i].kind \in DataKinds => net[i].tok = Val(token).access_token
    /\ pc = "exchange" => IsNone(token)
    /\ \A i \in 1 .. Len(net) :
          net[i].kind = "exchange" => i = 1 /\ (net[i].status # 200 => IsNone(token))

\* C18's case: a run found the held token expired, refreshed it, and only
\* then sent its first data request, with the new access token.
C18_Witness ==
    /\ FirstDataCall = 2
    /\ net[1].kind = "refresh" /\ net[1].status = 200
    /\ net[2].tok = net[1].got.access_token

====
